---- MODULE Spec2Model ----
(***************************************************************************)
(* msd2smf.py: conversion of an MSD byte stream to a Standard MIDI File.   *)
(* Bytes are the integers 0..255, byte strings are sequences of bytes.     *)
(* Offsets keep Python's 0-based convention through At and Slice.          *)
(***************************************************************************)
EXTENDS Integers, Sequences, FiniteSets, TLC

VARIABLES msd_bytes, pc, timebase, packets, track_data, deltatime, loop, i,
          data, events, offset, result, ticksIn, ticksOut, berValue, berBuffer

vars == <<msd_bytes, pc, timebase, packets, track_data, deltatime, loop, i,
          data, events, offset, result, ticksIn, ticksOut, berValue, berBuffer>>

\* ---------------------------------------------------------------- bounds
MaxRecords == 2
MaxPackets == 2
OverBy == 16
BerSmallMax == 40

\* ------------------------------------------------- Python byte primitives
Min(a, b) == IF a < b THEN a ELSE b

\* data[k] with a 0-based index
At(s, k) == s[k + 1]

\* data[a:b]: a slice never fails, it is clipped to the bytes present
Slice(s, a, b) == SubSeq(s, a + 1, Min(b, Len(s)))

RECURSIVE Join(_)
\* b''.join(list)
Join(list) == IF list = <<>> THEN <<>> ELSE Head(list) \o Join(Tail(list))

\* (n + 3) & ~3
Align4(n) == ((n + 3) \div 4) * 4

\* struct.pack("<I", v), used to lay out the input file
pack_le32(v) == <<v % 256, (v \div 256) % 256, (v \div 65536) % 256,
                  (v \div 16777216) % 256>>

\* struct.unpack_from("<I", b, off) raises when fewer than 4 bytes remain
can_unpack(b, off, n) == off + n <= Len(b)

unpack_le32(b, off) == At(b, off) + 256 * At(b, off + 1)
                       + 65536 * At(b, off + 2) + 16777216 * At(b, off + 3)

\* struct.pack(">I", n)
pack_be32(n) == <<(n \div 16777216) % 256, (n \div 65536) % 256,
                  (n \div 256) % 256, n % 256>>

\* struct.pack(">h", n) accepts -32768..32767 only and raises otherwise
pack_h_ok(n) == n >= -32768 /\ n <= 32767

pack_be16(n) == <<((n + 65536) \div 256) % 256, (n + 65536) % 256>>

\* ------------------------------------------------------ ASCII literals
MThd == <<77, 84, 104, 100>>
MTrk == <<77, 84, 114, 107>>
WMSD == <<87, 77, 83, 68>>
loopstart == <<108, 111, 111, 112, 115, 116, 97, 114, 116>>
loopend == <<108, 111, 111, 112, 101, 110, 100>>

\* Optional data of a meta event: None, or the bytes
None == {}
Some(b) == {b}
TheData(d) == CHOOSE b \in d : TRUE

\* ------------------------------------------------------ primitive encoders
\* to_smf_chunk(name, data)
to_smf_chunk_nolen(name, body) == name \o pack_be32(Len(body) + 8) \o body

to_smf_chunk(name, body) == name \o pack_be32(Len(body)) \o body

RECURSIVE ber_loop(_, _)
\* the while loop of to_smf_ber: insert continuation bytes at the front
ber_loop(buffer, value) ==
    IF value > 0
    THEN ber_loop(<<(value % 128) + 128>> \o buffer, value \div 128)
    ELSE buffer

\* a variant that forgets the continuation bit on the leading bytes
RECURSIVE ber_loop_nocont(_, _)
ber_loop_nocont(buffer, value) ==
    IF value > 0
    THEN ber_loop_nocont(<<value % 128>> \o buffer, value \div 128)
    ELSE buffer

to_smf_ber_nocont(value) == ber_loop_nocont(<<value % 128>>, value \div 128)

\* to_smf_ber(value) for an integer value; no caller passes None
to_smf_ber(value) == ber_loop(<<value % 128>>, value \div 128)

\* to_smf_metaevent(event_type, data, deltatime)
to_smf_metaevent(event_type, d, dt) ==
    to_smf_ber(dt) \o <<255, event_type>> \o
    (IF d = None THEN to_smf_ber(0)
     ELSE to_smf_ber(Len(TheData(d))) \o TheData(d))

\* to_smf_sysex(data, deltatime): data[0] raises IndexError on empty data
sysex_raises(d) == d = <<>>

to_smf_sysex(d, dt) ==
    LET body == IF At(d, 0) = 240 THEN Tail(d) ELSE d
    IN  to_smf_ber(dt) \o <<240>> \o to_smf_ber(Len(body)) \o body

\* to_smf_shortmes(data, deltatime)
to_smf_shortmes(d, dt) == to_smf_ber(dt) \o d

\* to_smf(tracks, timebase): struct.pack('>hhh', ...) raises on a value
\* outside the signed 16-bit range
to_smf_raises(tracks, tb) == ~pack_h_ok(tb) \/ ~pack_h_ok(Len(tracks))

RECURSIVE track_chunks(_)
track_chunks(tracks) ==
    IF tracks = <<>> THEN <<>>
    ELSE to_smf_chunk(MTrk, Head(tracks)) \o track_chunks(Tail(tracks))

to_smf(tracks, tb) ==
    LET header == pack_be16(IF Len(tracks) > 1 THEN 1 ELSE 0)
                  \o pack_be16(Len(tracks)) \o pack_be16(tb)
    IN  to_smf_chunk(MThd, header) \o track_chunks(tracks)

\* a table whose last entry is the 3 of a full channel message
cmd_len_tbl_full == <<3, 3, 2, 3, 2, 2, 3, 3>>

cmd_len_tbl == <<3, 3, 2, 3, 2, 2, 3, 0>>


\* ------------------------------------------------------------- input files
\* one 12-byte MSD record: dtime, an unused word, then bytes 8..11
Rec(dtime, b8, b9, b10, b11) ==
    pack_le32(dtime) \o <<0, 0, 0, 0>> \o <<b8, b9, b10, b11>>

\* the building blocks of the payloads that are converted
Pieces == <<
    Rec(5, 144, 60, 64, 0),                      \* note on, 3 bytes
    Rec(0, 193, 5, 0, 64),                       \* program change, bit 0x40 set
    Rec(300, 240, 1, 2, 0),                      \* status nibble 0xF, length 0
    Rec(3, 255, 0, 0, 0),                        \* class 0 with byte 8 = 0xFF
    Rec(1, 32, 161, 7, 1),                       \* tempo
    Rec(7, 3, 0, 0, 128) \o <<240, 1, 2, 0>>,    \* SysEx of 3 bytes with F0
    Rec(2, 0, 0, 0, 128),                        \* SysEx of length 0
    Rec(9, 12, 0, 0, 128),                       \* SysEx of 12 bytes, no body
    Rec(4, 3, 0, 0, 130),                        \* unknown block of 3 bytes
    <<1, 2, 3>>                                  \* a partial record
>>

\* the whole records; the last piece is the partial one
WholePieces == 1..(Len(Pieces) - 1)
PartialPiece == Len(Pieces)

PieceSeqs(max) == UNION {[1..k -> WholePieces] : k \in 0..max}

PiecesOf(ps) == Join([j \in 1..Len(ps) |-> Pieces[ps[j]]])

TimebaseSet == {0, 480, 32767, 32768, 65535, 65536}
IdSet == {1, 2}
NextIdSet == {1}

Zeros(n) == [j \in 1..n |-> 0]

\* the n payloads a piece sequence is cut into: cuts[k] pieces lie in the
\* first k packets
CutsOf(n, len) ==
    {c \in [1..n -> 0..len] :
        /\ \A k \in 1..n : k < n => c[k] <= c[k + 1]
        /\ n > 0 => c[n] = len}

PayloadOf(ps, cuts, k) ==
    PiecesOf(SubSeq(ps, (IF k = 1 THEN 0 ELSE cuts[k - 1]) + 1, cuts[k]))

\* the MSD file: header, then per packet a directory entry, its payload
\* and the padding to a multiple of 4
BuildEntry(pid, nid, declared, payload) ==
    pack_le32(pid) \o pack_le32(nid) \o pack_le32(0) \o pack_le32(declared)
    \o payload \o Zeros(Align4(Len(payload)) - Len(payload))

BuildMsd(magic, tb, count, ps, cuts, ids, lastNext, overAt) ==
    LET n == Len(ids)
        entry(k) == BuildEntry(ids[k],
                               IF k < n THEN ids[k + 1] ELSE lastNext,
                               Len(PayloadOf(ps, cuts, k))
                                 + (IF k = overAt THEN OverBy ELSE 0),
                               PayloadOf(ps, cuts, k))
    IN  magic \o pack_le32(tb) \o Zeros(8) \o pack_le32(count)
        \o Join([k \in 1..n |-> entry(k)])

\* the files converted: every cut of every sequence of whole records into
\* packets under a plain header, with every pattern of packet ids against
\* the last packet's next id
PlainFile(f) ==
    \E n \in 0..MaxPackets :
    \E ids \in [1..n -> IdSet] :
    \E lastNext \in NextIdSet :
    \E ps \in PieceSeqs(MaxRecords) :
    \E cuts \in CutsOf(n, Len(ps)) :
        /\ n = 0 => ps = <<>>
        /\ f = BuildMsd(WMSD, 480, n, ps, cuts, ids, lastNext, 0)

\* short files under every header variation: the magic, the timebase, the
\* declared packet count, and a declared length that overruns the payload
\* by OverBy bytes
HeaderFile(f) ==
    \E n \in 0..MaxPackets :
    \E ps \in {<<>>, <<1>>, <<PartialPiece>>} :
    \E cuts \in CutsOf(n, Len(ps)) :
    \E magic \in {WMSD, <<82, 73, 70, 70>>} :
    \E tb \in TimebaseSet :
    \E count \in {n, n + 1} :
    \E overAt \in 0..n :
        /\ n = 0 => ps = <<>>
        /\ f = BuildMsd(magic, tb, count, ps, cuts, [k \in 1..n |-> k],
                        n + 1, overAt)

InputFile(f) == PlainFile(f) \/ HeaderFile(f)

\* ------------------------------------------------------ the conversion
\* state before convert_msd_to_midi(msd_bytes) runs
Idle ==
    /\ timebase = 0 /\ packets = <<>> /\ track_data = <<>> /\ deltatime = 0
    /\ loop = FALSE /\ i = 0 /\ data = <<>> /\ events = <<>> /\ offset = 0
    /\ result = <<>> /\ ticksIn = 0 /\ ticksOut = 0

Init ==
    /\ InputFile(msd_bytes)
    /\ pc = "parse"
    /\ Idle
    /\ berValue = 0 /\ berBuffer = <<>>

\* the packet directory walk of convert_msd_to_midi: the offset after the
\* last entry read, or -1 when struct.unpack_from raises
RECURSIVE read_packets(_, _, _, _)
read_packets(b, off, count, acc) ==
    IF count = 0 THEN [ok |-> TRUE, packets |-> acc]
    ELSE IF ~can_unpack(b, off, 16) THEN [ok |-> FALSE, packets |-> acc]
    ELSE LET pid == unpack_le32(b, off)
             nid == unpack_le32(b, off + 4)
             length == unpack_le32(b, off + 12)
             payload == Slice(b, off + 16, off + 16 + length)
         IN  read_packets(b, off + 16 + Align4(length), count - 1,
                 Append(acc, [ThisID |-> pid, NextID |-> nid,
                              Length |-> length, Payload |-> payload]))

header_raises(b) ==
    \/ Slice(b, 0, 4) # WMSD
    \/ ~can_unpack(b, 4, 4)
    \/ ~can_unpack(b, 16, 4)

parsed(b) == read_packets(b, 20, unpack_le32(b, 16), <<>>)

\* the for loop moves on to the next packet, or ends
NextPacket ==
    /\ i' = i + 1
    /\ pc' = IF i + 1 < Len(packets) THEN "loop" ELSE "finish"

\* lines 107-120 raise: ValueError on the magic, struct.error on a
\* header or directory entry that is not there
ParseRaise ==
    /\ pc = "parse"
    /\ header_raises(msd_bytes) \/ ~parsed(msd_bytes).ok
    /\ pc' = "error"
    /\ UNCHANGED <<msd_bytes, timebase, packets, track_data, deltatime, loop,
                   i, data, events, offset, result, ticksIn, ticksOut,
                   berValue, berBuffer>>

\* lines 107-124
Parse ==
    /\ pc = "parse"
    /\ ~header_raises(msd_bytes)
    /\ parsed(msd_bytes).ok
    /\ timebase' = unpack_le32(msd_bytes, 4)
    /\ packets' = parsed(msd_bytes).packets
    /\ track_data' = <<>>
    /\ deltatime' = 0
    /\ loop' = FALSE
    /\ pc' = IF Len(packets') > 0 THEN "loop" ELSE "finish"
    /\ UNCHANGED <<msd_bytes, i, data, events, offset, result, ticksIn,
                   ticksOut, berValue, berBuffer>>

\* pkt and packets[-1] of the for loop
pkt == packets[i + 1]
last_pkt == packets[Len(packets)]

\* a variant that marks the loop on the first packet's NextID
is_loop_packet_first == pkt.ThisID = packets[1].NextID

\* line 127
is_loop_packet == pkt.ThisID = last_pkt.NextID

\* lines 127-131
LoopCheck ==
    /\ pc = "loop"
    /\ IF is_loop_packet
       THEN /\ track_data' = Append(track_data,
                   to_smf_metaevent(6, Some(loopstart), deltatime))
            /\ ticksOut' = ticksOut + deltatime
            /\ deltatime' = 0
            /\ loop' = TRUE
       ELSE UNCHANGED <<track_data, ticksOut, deltatime, loop>>
    /\ pc' = "body"
    /\ UNCHANGED <<msd_bytes, timebase, packets, i, data, events, offset,
                   result, ticksIn, berValue, berBuffer>>

\* a variant that writes the pending delta-time for an empty packet
EmptyPacketDelta ==
    /\ pc = "body"
    /\ pkt.Length = 0
    /\ track_data' = Append(track_data, to_smf_ber(deltatime))
    /\ deltatime' = 0
    /\ NextPacket
    /\ UNCHANGED <<msd_bytes, timebase, packets, loop, data, events, offset,
                   result, ticksIn, ticksOut, berValue, berBuffer>>

\* lines 133-134
EmptyPacket ==
    /\ pc = "body"
    /\ pkt.Length = 0
    /\ track_data' = Append(track_data, <<>>)
    /\ NextPacket
    /\ UNCHANGED <<msd_bytes, timebase, packets, deltatime, loop, data,
                   events, offset, result, ticksIn, ticksOut, berValue,
                   berBuffer>>

\* line 136 calls conv_mes_safe(pkt["Payload"], deltatime): lines 63-65
CallDecoder ==
    /\ pc = "body"
    /\ pkt.Length # 0
    /\ data' = pkt.Payload
    /\ events' = <<>>
    /\ offset' = 0
    /\ pc' = "rec"
    /\ UNCHANGED <<msd_bytes, timebase, packets, track_data, deltatime, loop,
                   i, result, ticksIn, ticksOut, berValue, berBuffer>>

\* ---------------------------------------------------------- conv_mes_safe
\* line 67 and the record read of lines 68-73
more_records == offset + 12 <= Len(data)
chunk == Slice(data, offset, offset + 12)
dtime == unpack_le32(chunk, 0)

\* chunk[11] & 0xBF
event_type == At(chunk, 11) - (IF (At(chunk, 11) \div 64) % 2 = 1 THEN 64 ELSE 0)

\* chunk[11] & 0x80
high_bit == At(chunk, 11) >= 128

\* param & 0xFFFFFF: the low three bytes of the little-endian word at 8
low24 == At(chunk, 8) + 256 * At(chunk, 9) + 65536 * At(chunk, 10)

\* the frame every record step shares: lines 69-71 and what a step of the
\* decoder never touches
RecordRead ==
    /\ pc = "rec"
    /\ more_records
    /\ ticksIn' = ticksIn + dtime
    /\ UNCHANGED <<msd_bytes, timebase, packets, track_data, loop, i, data,
                   result, berValue, berBuffer>>

\* lines 75-80
DecodeShort ==
    /\ RecordRead
    /\ event_type = 0 /\ At(chunk, 8) # 255
    /\ LET cmd == At(chunk, 8)
           length == cmd_len_tbl[((cmd \div 16) % 8) + 1]
           msg == Slice(chunk, 8, 8 + length)
       IN  events' = Append(events, to_smf_shortmes(msg, deltatime + dtime))
    /\ ticksOut' = ticksOut + deltatime + dtime
    /\ deltatime' = 0
    /\ offset' = offset + 12
    /\ pc' = "rec"

\* lines 82-86
DecodeTempo ==
    /\ RecordRead
    /\ ~(event_type = 0 /\ At(chunk, 8) # 255)
    /\ event_type = 1
    /\ LET tempo == <<At(chunk, 10), At(chunk, 9), At(chunk, 8)>>
       IN  events' = Append(events,
                            to_smf_metaevent(81, Some(tempo), deltatime + dtime))
    /\ ticksOut' = ticksOut + deltatime + dtime
    /\ deltatime' = 0
    /\ offset' = offset + 12
    /\ pc' = "rec"

\* the branch of line 88, and its test of line 91 on the offset after the
\* record
is_sysex ==
    /\ ~(event_type = 0 /\ At(chunk, 8) # 255)
    /\ event_type # 1
    /\ event_type = 128

sysex_fits == offset + 12 + low24 <= Len(data)
sysex_data == Slice(data, offset + 12, offset + 12 + low24)

\* lines 88-95, the body is there and to_smf_sysex returns
DecodeSysEx ==
    /\ RecordRead
    /\ is_sysex
    /\ sysex_fits
    /\ ~sysex_raises(sysex_data)
    /\ events' = Append(events, to_smf_sysex(sysex_data, deltatime + dtime))
    /\ ticksOut' = ticksOut + deltatime + dtime
    /\ offset' = offset + 12 + Align4(low24)
    /\ deltatime' = 0
    /\ pc' = "rec"

\* lines 88-93, to_smf_sysex raises IndexError at line 41 and the
\* conversion ends with it
DecodeSysExRaise ==
    /\ RecordRead
    /\ is_sysex
    /\ sysex_fits
    /\ sysex_raises(sysex_data)
    /\ pc' = "error"
    /\ UNCHANGED <<events, offset, deltatime, ticksOut>>

\* lines 88-91 and 95, the body is not there: nothing is emitted and
\* line 95 still runs
DecodeSysExShort ==
    /\ RecordRead
    /\ is_sysex
    /\ ~sysex_fits
    /\ offset' = offset + 12
    /\ deltatime' = 0
    /\ pc' = "rec"
    /\ UNCHANGED <<events, ticksOut>>

\* lines 97-101
DecodeOther ==
    /\ RecordRead
    /\ ~(event_type = 0 /\ At(chunk, 8) # 255)
    /\ event_type # 1
    /\ event_type # 128
    /\ offset' = IF high_bit THEN offset + 12 + Align4(low24) ELSE offset + 12
    /\ deltatime' = deltatime + dtime
    /\ pc' = "rec"
    /\ UNCHANGED <<events, ticksOut>>

\* line 67 ends the loop; line 103 returns and lines 136-137 take the result
DecoderReturn ==
    /\ pc = "rec"
    /\ ~more_records
    /\ track_data' = Append(track_data, Join(events))
    /\ NextPacket
    /\ UNCHANGED <<msd_bytes, timebase, packets, deltatime, loop, data,
                   events, offset, result, ticksIn, ticksOut, berValue,
                   berBuffer>>

\* ------------------------------------------------------- end of the track
\* lines 139-145: the track data with the loop end marker and end of track
closing ==
    (IF loop THEN <<to_smf_metaevent(6, Some(loopend), deltatime)>> ELSE <<>>)
    \o <<to_smf_metaevent(47, None, IF loop THEN 0 ELSE deltatime)>>

\* lines 139-147, struct.pack of to_smf raises
FinishRaise ==
    /\ pc = "finish"
    /\ to_smf_raises(<<Join(track_data \o closing)>>, timebase)
    /\ track_data' = track_data \o closing
    /\ deltatime' = IF loop THEN 0 ELSE deltatime
    /\ ticksOut' = ticksOut + deltatime
    /\ pc' = "error"
    /\ UNCHANGED <<msd_bytes, timebase, packets, loop, i, data, events,
                   offset, result, ticksIn, berValue, berBuffer>>

\* lines 139-147
Finish ==
    /\ pc = "finish"
    /\ ~to_smf_raises(<<Join(track_data \o closing)>>, timebase)
    /\ track_data' = track_data \o closing
    /\ deltatime' = IF loop THEN 0 ELSE deltatime
    /\ ticksOut' = ticksOut + deltatime
    /\ result' = to_smf(<<Join(track_data')>>, timebase)
    /\ pc' = "done"
    /\ UNCHANGED <<msd_bytes, timebase, packets, loop, i, data, events,
                   offset, ticksIn, berValue, berBuffer>>

Next ==
    \/ ParseRaise
    \/ Parse
    \/ LoopCheck
    \/ EmptyPacket
    \/ CallDecoder
    \/ DecodeShort
    \/ DecodeTempo
    \/ DecodeSysEx
    \/ DecodeSysExRaise
    \/ DecodeSysExShort
    \/ DecodeOther
    \/ DecoderReturn
    \/ FinishRaise
    \/ Finish

Spec == Init /\ [][Next]_vars

\* ------------------------------------------------------------ to_smf_ber
\* the values to_smf_ber is applied to: the small ones and those around
\* each change of the encoded length, up to 0x0FFFFFFF
BerInputs ==
    (0..BerSmallMax) \cup (120..135) \cup (16376..16391)
    \cup (2097144..2097159) \cup (268435440..268435455)
    \cup {255, 256, 8192, 65535, 1000000, 134217728}

BerInit ==
    /\ msd_bytes = <<>>
    /\ pc = "ber"
    /\ Idle
    /\ berValue \in BerInputs
    /\ berBuffer = <<>>

\* lines 18-28
BerCall ==
    /\ pc = "ber"
    /\ berBuffer' = to_smf_ber(berValue)
    /\ pc' = "ber_done"
    /\ UNCHANGED <<msd_bytes, timebase, packets, track_data, deltatime, loop,
                   i, data, events, offset, result, ticksIn, ticksOut,
                   berValue>>

BerNext == BerCall

SpecBer == BerInit /\ [][BerNext]_vars

\* ================================================================ claims
\* readers used to state the claims
unpack_be32(b, off) == 16777216 * At(b, off) + 65536 * At(b, off + 1)
                       + 256 * At(b, off + 2) + At(b, off + 3)

\* the number of bytes of the variable-length quantity that starts a
\* fragment
RECURSIVE vlq_len(_)
vlq_len(s) == IF s = <<>> THEN 0
              ELSE IF Head(s) < 128 THEN 1 ELSE 1 + vlq_len(Tail(s))

RECURSIVE vlq_decode(_, _)
\* the standard decoding rule: 7 bits per byte, most significant first
vlq_decode(s, acc) ==
    IF s = <<>> THEN acc ELSE vlq_decode(Tail(s), acc * 128 + (Head(s) % 128))

\* a fragment that is a marker meta event with the given text
IsMarker(frag, tag) ==
    /\ Len(frag) = vlq_len(frag) + 3 + Len(tag)
    /\ SubSeq(frag, vlq_len(frag) + 1, Len(frag)) = <<255, 6, Len(tag)>> \o tag

\* packet k is the target of the loop
Target(k) == packets[k].ThisID = packets[Len(packets)].NextID
TargetsUpTo(k) == Cardinality({j \in 1..k : Target(j)})

\* some packet declares more payload bytes than the input holds
Overrun == \E k \in 1..Len(packets) :
               packets[k].Length > Len(packets[k].Payload)

\* C1: a conversion of an input in which a packet declares a payload
\* length that extends past the end of the input returns no SMF bytes.
C1_OverrunReturnsNothing == Overrun => result = <<>>

\* C2: a record that emits nothing leaves the running delta-time at its
\* previous value plus the record's dtime; outside the decoder the
\* delta-time changes only by the reset of a step that emits a marker or
\* the end of track, so it is carried unchanged across packet boundaries.
C2_ResetOnlyOnEmit ==
    [][IF pc = "rec" /\ more_records
       THEN pc' = "rec" =>
              \/ Len(events') = Len(events) + 1 /\ deltatime' = 0
              \/ events' = events /\ deltatime' = deltatime + dtime
       ELSE \/ deltatime' = deltatime
            \/ /\ deltatime' = 0
               /\ Len(track_data') > Len(track_data)
               /\ pc \in {"loop", "finish"}]_vars

\* C3: a loopstart marker carrying the running delta-time is emitted
\* right before the events of every packet whose ThisID is the last
\* packet's NextID, and of no other; one loopend marker carrying the
\* running delta-time follows the last packet's events and precedes the
\* end of track exactly when a loopstart was emitted; each marker resets
\* the running delta-time to 0.
C3_LoopMarkers ==
    [][/\ pc = "loop" =>
            IF Target(i + 1)
            THEN /\ track_data' = Append(track_data,
                        to_smf_ber(deltatime) \o <<255, 6, 9>> \o loopstart)
                 /\ deltatime' = 0
            ELSE track_data' = track_data /\ deltatime' = deltatime
       /\ pc = "finish" =>
            LET n == Len(packets)
                m == IF n = 0 THEN 0 ELSE TargetsUpTo(n)
                t == track_data'
            IN  /\ Len(t) = n + m + (IF m > 0 THEN 2 ELSE 1)
                /\ \A k \in 1..n :
                     /\ Target(k) => IsMarker(t[k + TargetsUpTo(k) - 1], loopstart)
                     /\ ~IsMarker(t[k + TargetsUpTo(k)], loopstart)
                /\ Cardinality({j \in 1..Len(t) : IsMarker(t[j], loopstart)}) = m
                /\ Cardinality({j \in 1..Len(t) : IsMarker(t[j], loopend)})
                     = (IF m > 0 THEN 1 ELSE 0)
                /\ m > 0 =>
                     /\ t[Len(t) - 1] =
                          to_smf_ber(deltatime) \o <<255, 6, 7>> \o loopend
                     /\ deltatime' = 0]_vars

\* two packets are loop targets and have been converted
C3_Witness ==
    /\ pc = "done"
    /\ Len(packets) = 2
    /\ Target(1) /\ Target(2)
    /\ packets[1].Length > 0
    /\ Len(track_data) = 6

\* C4: a well-formed input whose timebase is at most 65535 converts, and
\* the output starts with MThd, length 6, format 0, one track and the
\* timebase as an unsigned 16-bit big-endian value.
C4_TimebaseU16 ==
    [][(pc = "finish" /\ ~Overrun /\ timebase <= 65535) =>
         /\ pc' = "done"
         /\ Len(result') >= 14
         /\ SubSeq(result', 1, 14) =
              MThd \o <<0, 0, 0, 6>> \o <<0, 0>> \o <<0, 1>>
              \o <<timebase \div 256, timebase % 256>>]_vars

\* C5: a successful conversion outputs the 14-byte header chunk and then
\* exactly one MTrk chunk whose length field is the length of its body;
\* the body is the track data and ends with the end of track event, the
\* VLQ of the running delta-time then FF 2F 00, after any loopend marker.
C5_OneTrackChunk ==
    pc = "done" =>
      /\ Len(result) >= 22 + 4
      /\ SubSeq(result, 1, 4) = MThd
      /\ unpack_be32(result, 4) = 6
      /\ SubSeq(result, 15, 18) = MTrk
      /\ unpack_be32(result, 18) = Len(result) - 22
      /\ SubSeq(result, 23, Len(result)) = Join(track_data)
      /\ LET eot == to_smf_ber(deltatime) \o <<255, 47, 0>>
         IN  /\ track_data[Len(track_data)] = eot
             /\ SubSeq(result, Len(result) - Len(eot) + 1, Len(result)) = eot
      /\ loop => IsMarker(track_data[Len(track_data) - 1], loopend)

\* a conversion of zero-length packets only, with a loop, is done
C5_Witness ==
    /\ pc = "done"
    /\ loop
    /\ Len(packets) = 2
    /\ \A k \in 1..2 : packets[k].Length = 0

\* C6: for v in 0..0x0FFFFFFF, to_smf_ber(v) has 1 to 4 bytes, all but
\* the last with the high bit set and the last with it clear, and the
\* standard decoding recovers v; vlq(0), vlq(127), vlq(128) are 00, 7F and
\* 81 00.
C6_BerRoundTrip ==
    pc = "ber_done" =>
      /\ Len(berBuffer) \in 1..4
      /\ \A j \in 1..Len(berBuffer) :
           /\ berBuffer[j] \in 0..255
           /\ (berBuffer[j] >= 128) <=> (j < Len(berBuffer))
      /\ vlq_decode(berBuffer, 0) = berValue
      /\ berValue = 0 => berBuffer = <<0>>
      /\ berValue = 127 => berBuffer = <<127>>
      /\ berValue = 128 => berBuffer = <<129, 0>>

\* the largest value has been encoded, on 4 bytes
C6_Witness ==
    /\ pc = "ber_done"
    /\ berValue = 268435455
    /\ berBuffer = <<255, 255, 255, 127>>

\* C7: a record of class 0x80 whose length L fits in the payload, L = 0
\* included, emits one SysEx event vlq(delta) F0 vlq(len(body)) body, body
\* being the L bytes after the record less a leading F0, moves the cursor
\* past the record and L rounded up to a multiple of 4, and resets the
\* running delta-time.
C7_SysExEmitted ==
    [][(/\ pc = "rec" /\ more_records
        /\ (At(chunk, 11) % 64) + 128 * (At(chunk, 11) \div 128) = 128
        /\ offset + 12 + low24 <= Len(data)) =>
         LET raw == SubSeq(data, offset + 13, offset + 12 + low24)
             body == IF raw # <<>> /\ raw[1] = 240 THEN Tail(raw) ELSE raw
         IN  /\ events' = Append(events,
                    to_smf_ber(deltatime + dtime) \o <<240>>
                    \o to_smf_ber(Len(body)) \o body)
             /\ offset' = offset + 12 + 4 * ((low24 + 3) \div 4)
             /\ deltatime' = 0]_vars

\* C8: a record of class 0 whose byte 8 is not 0xFF emits one short
\* message, vlq(delta) and the first n bytes from offset 8 with n taken
\* from [3,3,2,3,2,2,3,0] at (byte8 >> 4) & 7; the index is in 0..7, n is
\* at most 3, the running delta-time is reset and the cursor moves by 12.
C8_ShortMessage ==
    [][(/\ pc = "rec" /\ more_records
        /\ (At(chunk, 11) % 64) + 128 * (At(chunk, 11) \div 128) = 0
        /\ At(chunk, 8) # 255) =>
         LET idx == (At(chunk, 8) \div 16) % 8
             n == <<3, 3, 2, 3, 2, 2, 3, 0>>[idx + 1]
         IN  /\ idx \in 0..7
             /\ n <= 3
             /\ events' = Append(events,
                    to_smf_ber(deltatime + dtime)
                    \o SubSeq(data, offset + 9, offset + 8 + n))
             /\ deltatime' = 0
             /\ offset' = offset + 12]_vars

\* a record of status nibble 0xF was decoded after a no-op record: the
\* event is the delta-time 3 + 300 alone
C8_Witness ==
    /\ pc = "rec"
    /\ offset = 24
    /\ events = << <<130, 47>> >>
    /\ deltatime = 0

C10_TicksPreserved == pc = "done" => ticksOut = ticksIn

====
